---- MODULE Spec2Model ----
(***************************************************************************)
(* Model of scripts/fetch_trusted_logos.py: fetch_logo (retry / backoff   *)
(* loop around one HTTP GET) and main (the sequential driver that writes  *)
(* logo-01.png .. logo-16.png).                                           *)
(*                                                                         *)
(* Control positions (pc) are source lines of the single thread:          *)
(*   "main"      line 61, before mkdir / Session()                        *)
(*   "enumerate" line 65, header of main's for loop                       *)
(*   "for"       line 40, header of fetch_logo's for loop                 *)
(*   "get"       line 41, about to call session.get                       *)
(*   "check"     line 43, a response is held                              *)
(*   "write"     line 67, fetch_logo has returned, data is held           *)
(*   "pace"      line 71, about to sleep 1.25 s                           *)
(*   "exit0"     main returned, interpreter exits with status 0           *)
(*   "fatal"     an exception left main uncaught, exit status 1           *)
(* Strings that the code inspects by prefix (content types) are tuples of *)
(* one-character strings; bytes objects are tuples of numbers.            *)
(***************************************************************************)
EXTENDS Integers, Sequences, FiniteSets, TLC

VARIABLES
    pc,          \* control position of the only thread
    dirExists,   \* whether OUTPUT_DIR exists on disk
    disk,        \* path -> bytes held by the file, or Absent
    session,     \* headers of the requests.Session, NoRecord before line 62
    index,       \* main: last index produced by enumerate(FILES, start=1)
    file_name,   \* main / fetch_logo: current identifier
    data,        \* main: bytes returned by fetch_logo
    url,         \* fetch_logo: request URL
    attempt,     \* fetch_logo: loop variable of range(7), Unset before the first
    response,    \* fetch_logo: response of the last GET
    error,       \* the uncaught exception, NoRecord while there is none
    exitStatus,  \* process exit status, Running before the exit
    origin,      \* environment: which version of the images the server holds
    gets,        \* history: GETs issued by the current fetch_logo call
    backoffs,    \* history: sleep_seconds slept by the current fetch_logo call
    requested,   \* history: identifiers for which a GET was issued
    fetched,     \* history: identifiers for which fetch_logo returned
    served,      \* history: identifier -> body of the last response sent for it
    writes,      \* history: paths written by this run, in order
    pacings,     \* history: pacing sleeps done by main, in seconds * 100
    disk0,       \* history: the disk as the run found it
    counting,    \* history: whether the GETs of the run are being totalled
    totalGets    \* history: GETs issued by the run so far, while counting

vars == <<pc, dirExists, disk, session, index, file_name, data, url, attempt,
          response, error, exitStatus, origin, gets, backoffs, requested,
          fetched, served, writes, pacings, disk0, counting, totalGets>>

\* Python's None, for each kind of value a variable may hold
None == "None"
NoBytes == <<-1>>
NoRecord == [kind |-> "None"]

\* the loop variable of range(7) before the first iteration
Unset == -1

\* no file at a path
Absent == <<-2>>

\* exit status of a process that has not exited
Running == -1

----------------------------------------------------------------------------
(* Bounds of the environment *)

\* the server holds one of 1 + MaxOrigin versions of every image
MaxOrigin == 1

----------------------------------------------------------------------------
(* Program constants *)

OUTPUT_DIR == "public/trusted-logos"

WIKIPEDIA_FILEPATH_BASE == "https://en.wikipedia.org/wiki/Special:FilePath"

WIDTH == 420

FILES ==
    << "Harvard_University_coat_of_arms.svg",
       "Princeton_seal.svg",
       "Coat_of_Arms_of_Columbia_University.svg",
       "Cornell_University_seal.svg",
       "Seal_of_Leland_Stanford_Junior_University.svg",
       "MIT_Seal.svg",
       "Seal_of_University_of_California,_Berkeley.svg",
       "Seal_of_the_California_Institute_of_Technology.svg",
       "University_of_Chicago_shield.svg",
       "University_of_California_logo.svg",
       "Mcgill_univ_ca_logo.png",
       "University_of_Washington_seal.svg",
       "Yale_University_Shield_1.svg",
       "University_of_Maryland_seal.svg",
       "Arms_of_University_of_Oxford.svg",
       "Coat_of_Arms_of_the_University_of_Cambridge.svg" >>

\* variant: one attempt too many, range(8)
AttemptRangeEight == 0 .. 7

\* range(7)
AttemptRange == 0 .. 6

\* the statuses the code treats as rate limiting
RetryStatuses == {429, 503}

\* the cap of min(2 ** attempt, 20)
BackoffCap == 20

\* time.sleep(1.25), in hundredths of a second
PACING == 125

USER_AGENT == "AideTrustedLogosBot/1.0"

\* exit status of an interpreter that ends on an uncaught exception
UncaughtExit == 1

----------------------------------------------------------------------------
(* Pure helpers, computed as the Python expressions compute them *)

Min(a, b) == IF a <= b THEN a ELSE b

RECURSIVE Pow(_, _)
Pow(b, e) == IF e = 0 THEN 1 ELSE b * Pow(b, e - 1)

\* str.startswith
StartsWith(s, p) == Len(s) >= Len(p) /\ SubSeq(s, 1, Len(p)) = p

Digits == <<"0", "1", "2", "3", "4", "5", "6", "7", "8", "9">>

\* str(n) for n >= 0
RECURSIVE Str(_)
Str(n) == IF n < 10 THEN Digits[n + 1] ELSE Str(n \div 10) \o Digits[(n % 10) + 1]

\* zero fill on the left up to a minimum width
RECURSIVE ZFill(_, _)
ZFill(s, w) == IF Len(s) >= w THEN s ELSE ZFill("0" \o s, w)

\* variant: the width of the format is forgotten, f"logo-{index}.png"
LogoNameUnpadded(i) == "logo-" \o Str(i) \o ".png"

\* f"logo-{index:02}.png"
LogoName(i) == "logo-" \o ZFill(Str(i), 2) \o ".png"

\* variant: the position counted from 0, enumerate(FILES) without start=1
OutPathZeroBased(i) == OUTPUT_DIR \o "/" \o LogoName(i - 1)

\* OUTPUT_DIR / name
OutPath(i) == OUTPUT_DIR \o "/" \o LogoName(i)

\* Path.write_bytes: creates or truncates, then writes
WriteBytes(d, p, b) == [q \in DOMAIN d \cup {p} |-> IF q = p THEN b ELSE d[q]]

\* headers.get(key, default)
HeaderGet(h, k, d) == IF k \in DOMAIN h THEN h[k] ELSE d

\* f"{WIKIPEDIA_FILEPATH_BASE}/{quote(file_name)}?width={WIDTH}"; the quoted
\* name is kept as the name it encodes (the names of FILES are distinct)
Url(f) == [base |-> WIKIPEDIA_FILEPATH_BASE, name |-> f, width |-> WIDTH]

----------------------------------------------------------------------------
(* Environment: the disk the run finds and the responses of the server *)

ImagePng == <<"i", "m", "a", "g", "e", "/", "p", "n", "g">>
ImageSvg == <<"i", "m", "a", "g", "e", "/", "s", "v", "g", "+", "x", "m", "l">>
TextHtml == <<"t", "e", "x", "t", "/", "h", "t", "m", "l">>
ImageNoSlash == <<"i", "m", "a", "g", "e">>
UnknownType == <<"u", "n", "k", "n", "o", "w", "n", " ", "t", "y", "p", "e">>

NoHeaders == [k \in {} |-> <<>>]

\* the header sets a response may carry (the last one has no content-type)
HeaderSets ==
    {[k \in {"content-type"} |-> ct] : ct \in {ImagePng, ImageSvg, TextHtml, ImageNoSlash}}
        \cup {NoHeaders}

Statuses == {200, 404, 429, 500, 503}

Positions == 1 .. Len(FILES)

PositionOf(f) == CHOOSE i \in Positions : FILES[i] = f

\* the body the server sends for identifier f: the image on a 200, an error
\* page otherwise
Body(f, o, status) == IF status = 200 THEN <<PositionOf(f), o>> ELSE <<0, status>>

\* the file names the model watches in OUTPUT_DIR: the sixteen outputs, their
\* two neighbours and the unpadded spellings
WatchedNames ==
    << "logo-00.png", "logo-01.png", "logo-02.png", "logo-03.png", "logo-04.png",
       "logo-05.png", "logo-06.png", "logo-07.png", "logo-08.png", "logo-09.png",
       "logo-10.png", "logo-11.png", "logo-12.png", "logo-13.png", "logo-14.png",
       "logo-15.png", "logo-16.png", "logo-17.png", "logo-0.png", "logo-1.png",
       "logo-2.png", "logo-9.png" >>

Paths == {OUTPUT_DIR \o "/" \o WatchedNames[k] : k \in 1 .. Len(WatchedNames)}

\* what an earlier run or another program left at a path
Stale(p) == <<CHOOSE k \in 1 .. Len(WatchedNames) : OUTPUT_DIR \o "/" \o WatchedNames[k] = p, 99>>

EmptyDisk == [p \in Paths |-> Absent]

FullDisk == [p \in Paths |-> Stale(p)]

PartDisk ==
    [p \in Paths |->
        IF p \in {OUTPUT_DIR \o "/" \o WatchedNames[k] : k \in {2, 3, 6, 17}}
        THEN Stale(p) ELSE Absent]

\* <<directory exists, files>> as a run may find them
DiskInits == {<<FALSE, EmptyDisk>>, <<TRUE, EmptyDisk>>, <<TRUE, PartDisk>>, <<TRUE, FullDisk>>}

----------------------------------------------------------------------------
(* Classification of a response, lines 43 and 46 *)

\* variant: the status alone decides, the content type is not looked at
IsSuccessStatusOnly(r) == r.status_code = 200

IsSuccess(r) ==
    r.status_code = 200 /\ StartsWith(HeaderGet(r.headers, "content-type", <<>>), <<"i", "m", "a", "g", "e", "/">>)

\* variant: every status from 429 up is retried
IsTransientFrom429(r) == r.status_code >= 429

\* variant: a 429 or 503 that carries an image is not taken as rate limiting
IsTransientUnlessImage(r) ==
    /\ r.status_code \in RetryStatuses
    /\ ~StartsWith(HeaderGet(r.headers, "content-type", <<>>), <<"i", "m", "a", "g", "e", "/">>)

IsTransient(r) == r.status_code \in RetryStatuses

\* variant: the cap is forgotten
SleepSecondsUncapped(a) == Pow(2, a)

\* line 47
SleepSeconds(a) == Min(Pow(2, a), BackoffCap)

\* variant: only the first byte of the body is returned
ReturnedTruncated(r) == SubSeq(r.content, 1, 1)

\* the value of line 44's return
Returned(r) == r.content

\* the RuntimeError of lines 52-55
HttpError(f, r) ==
    [kind |-> "http", file_name |-> f, status_code |-> r.status_code,
     content_type |-> HeaderGet(r.headers, "content-type", UnknownType)]

\* the RuntimeError of line 57
ExhaustedError(f) == [kind |-> "exceeded retry attempts", file_name |-> f]

\* an exception raised by session.get itself (timeout, connection error)
RequestError(f) == [kind |-> "requests", file_name |-> f]

----------------------------------------------------------------------------
\* the state before main runs; c tells whether the run's GETs are totalled
Start(c) ==
    /\ pc = "main"
    /\ \E d \in DiskInits : dirExists = d[1] /\ disk = d[2] /\ disk0 = d[2]
    /\ session = NoRecord
    /\ index = 0
    /\ file_name = None
    /\ data = NoBytes
    /\ url = NoRecord
    /\ attempt = Unset
    /\ response = NoRecord
    /\ error = NoRecord
    /\ exitStatus = Running
    /\ origin \in 0 .. MaxOrigin
    /\ gets = 0
    /\ backoffs = <<>>
    /\ requested = {}
    /\ fetched = {}
    /\ served = [f \in {FILES[i] : i \in Positions} |-> NoBytes]
    /\ writes = <<>>
    /\ pacings = <<>>
    /\ counting = c
    /\ totalGets = 0

Init == Start(FALSE)

\* the same initial states, with the GETs of the run totalled
CountInit == Start(TRUE)

\* variant: main catches the error, reports it and goes on with the next item
RaiseAndContinue(e) ==
    /\ pc' = "enumerate"
    /\ error' = e
    /\ UNCHANGED <<dirExists, disk, session, index, file_name, data, url, attempt,
                   response, exitStatus, origin, gets, backoffs, requested, fetched,
                   served, writes, pacings, disk0,
                   counting, totalGets>>

\* variant: main catches the error, reports it and returns normally
RaiseExitZero(e) ==
    /\ pc' = "fatal"
    /\ error' = e
    /\ exitStatus' = 0
    /\ UNCHANGED <<dirExists, disk, session, index, file_name, data, url, attempt,
                   response, origin, gets, backoffs, requested, fetched, served,
                   writes, pacings, disk0,
                   counting, totalGets>>

\* variant: the failure path removes the files this run wrote
RaiseAndCleanUp(e) ==
    /\ pc' = "fatal"
    /\ error' = e
    /\ exitStatus' = UncaughtExit
    /\ disk' = [p \in DOMAIN disk |->
                  IF \E k \in 1 .. Len(writes) : writes[k] = p THEN Absent ELSE disk[p]]
    /\ UNCHANGED <<dirExists, session, index, file_name, data, url, attempt,
                   response, origin, gets, backoffs, requested, fetched, served,
                   writes, pacings, disk0,
                   counting, totalGets>>

\* an exception that nothing catches: it leaves fetch_logo and main, and the
\* interpreter exits
Raise(e) ==
    /\ pc' = "fatal"
    /\ error' = e
    /\ exitStatus' = UncaughtExit
    /\ UNCHANGED <<dirExists, disk, session, index, file_name, data, url, attempt,
                   response, origin, gets, backoffs, requested, fetched, served,
                   writes, pacings, disk0,
                   counting, totalGets>>

\* lines 61-63
Setup ==
    /\ pc = "main"
    /\ dirExists' = TRUE
    /\ session' = [k \in {"User-Agent"} |-> USER_AGENT]
    /\ pc' = "enumerate"
    /\ UNCHANGED <<disk, index, file_name, data, url, attempt, response, error,
                   exitStatus, origin, gets, backoffs, requested, fetched, served,
                   writes, pacings, disk0,
                   counting, totalGets>>

\* variant: the list is walked from its end, enumerate over reversed(FILES)
CallFetchReversed ==
    /\ pc = "enumerate"
    /\ index < Len(FILES)
    /\ index' = index + 1
    /\ file_name' = FILES[Len(FILES) - index]
    /\ url' = Url(FILES[Len(FILES) - index])
    /\ attempt' = Unset
    /\ response' = NoRecord
    /\ gets' = 0
    /\ backoffs' = <<>>
    /\ pc' = "for"
    /\ UNCHANGED <<dirExists, disk, session, data, error, exitStatus, origin,
                   requested, fetched, served, writes, pacings, disk0,
                   counting, totalGets>>

\* variant: the attempt counter is shared by the calls, a call goes on from
\* the number of sleeps of the call before it
CallFetchSharedBudget ==
    /\ pc = "enumerate"
    /\ index < Len(FILES)
    /\ index' = index + 1
    /\ file_name' = FILES[index + 1]
    /\ url' = Url(FILES[index + 1])
    /\ attempt' = Len(backoffs) - 1
    /\ response' = NoRecord
    /\ gets' = 0
    /\ backoffs' = <<>>
    /\ pc' = "for"
    /\ UNCHANGED <<dirExists, disk, session, data, error, exitStatus, origin,
                   requested, fetched, served, writes, pacings, disk0,
                   counting, totalGets>>

\* line 65 with a next item, line 66's call and line 38
CallFetch ==
    /\ pc = "enumerate"
    /\ index < Len(FILES)
    /\ index' = index + 1
    /\ file_name' = FILES[index + 1]
    /\ url' = Url(FILES[index + 1])
    /\ attempt' = Unset
    /\ response' = NoRecord
    /\ gets' = 0
    /\ backoffs' = <<>>
    /\ pc' = "for"
    /\ UNCHANGED <<dirExists, disk, session, data, error, exitStatus, origin,
                   requested, fetched, served, writes, pacings, disk0,
                   counting, totalGets>>

\* line 65 with FILES used up: main returns and the process exits normally
Finish ==
    /\ pc = "enumerate"
    /\ index >= Len(FILES)
    /\ pc' = "exit0"
    /\ exitStatus' = 0
    /\ UNCHANGED <<dirExists, disk, session, index, file_name, data, url, attempt,
                   response, error, origin, gets, backoffs, requested, fetched,
                   served, writes, pacings, disk0,
                   counting, totalGets>>

\* the next value of range(7) after a, or Unset when the range is used up
NextAttempt(a) ==
    LET n == IF a = Unset THEN 0 ELSE a + 1
    IN  IF n \in AttemptRange THEN n ELSE Unset

\* line 40 with an attempt left
ForAttempt ==
    /\ pc = "for"
    /\ NextAttempt(attempt) # Unset
    /\ attempt' = NextAttempt(attempt)
    /\ pc' = "get"
    /\ UNCHANGED <<dirExists, disk, session, index, file_name, data, url, response,
                   error, exitStatus, origin, gets, backoffs, requested, fetched,
                   served, writes, pacings, disk0,
                   counting, totalGets>>

\* line 40 with range(7) used up, then line 57
Exhausted ==
    /\ pc = "for"
    /\ NextAttempt(attempt) = Unset
    /\ Raise(ExhaustedError(file_name))

\* line 41, the server answers
Get ==
    /\ pc = "get"
    /\ \E s \in Statuses, h \in HeaderSets :
          /\ response' = [status_code |-> s, headers |-> h,
                          content |-> Body(url.name, origin, s)]
          /\ served' = [served EXCEPT ![url.name] = Body(url.name, origin, s)]
    /\ gets' = gets + 1
    /\ totalGets' = IF counting THEN totalGets + 1 ELSE totalGets
    /\ requested' = requested \cup {url.name}
    /\ pc' = "check"
    /\ UNCHANGED <<dirExists, disk, session, index, file_name, data, url, attempt,
                   error, exitStatus, origin, backoffs, fetched, writes, pacings,
                   disk0, counting>>

\* variant: the exception of session.get is caught and taken as rate limiting
GetRaisesRetried ==
    /\ pc = "get"
    /\ gets' = gets + 1
    /\ totalGets' = IF counting THEN totalGets + 1 ELSE totalGets
    /\ requested' = requested \cup {url.name}
    /\ backoffs' = Append(backoffs, SleepSeconds(attempt))
    /\ pc' = "for"
    /\ UNCHANGED <<dirExists, disk, session, index, file_name, data, url, attempt,
                   response, error, exitStatus, origin, fetched, served, writes,
                   pacings, disk0, counting>>

\* line 41, no answer: session.get raises (timeout after 60 s, connection error)
GetRaises ==
    /\ pc = "get"
    /\ pc' = "fatal"
    /\ error' = RequestError(file_name)
    /\ exitStatus' = UncaughtExit
    /\ gets' = gets + 1
    /\ totalGets' = IF counting THEN totalGets + 1 ELSE totalGets
    /\ requested' = requested \cup {url.name}
    /\ UNCHANGED <<dirExists, disk, session, index, file_name, data, url, attempt,
                   response, origin, backoffs, fetched, served, writes, pacings,
                   disk0, counting>>

\* variant: fetch_logo itself saves the body before it returns
ReturnContentSaving ==
    /\ pc = "check"
    /\ IsSuccess(response)
    /\ data' = Returned(response)
    /\ fetched' = fetched \cup {file_name}
    /\ disk' = WriteBytes(disk, OutPath(index), Returned(response))
    /\ url' = NoRecord
    /\ attempt' = Unset
    /\ response' = NoRecord
    /\ pc' = "write"
    /\ UNCHANGED <<dirExists, session, index, file_name, error, exitStatus,
                   origin, gets, backoffs, requested, served, writes, pacings,
                   disk0,
                   counting, totalGets>>

\* lines 43-44; the frame of fetch_logo is dropped
ReturnContent ==
    /\ pc = "check"
    /\ IsSuccess(response)
    /\ data' = Returned(response)
    /\ fetched' = fetched \cup {file_name}
    /\ url' = NoRecord
    /\ attempt' = Unset
    /\ response' = NoRecord
    /\ pc' = "write"
    /\ UNCHANGED <<dirExists, disk, session, index, file_name, error, exitStatus,
                   origin, gets, backoffs, requested, served, writes, pacings,
                   disk0,
                   counting, totalGets>>

\* variant: break instead of continue, the loop is left after the first sleep
BackoffThenBreak ==
    /\ pc = "check"
    /\ ~IsSuccess(response)
    /\ IsTransient(response)
    /\ backoffs' = Append(backoffs, SleepSeconds(attempt))
    /\ attempt' = 6
    /\ pc' = "for"
    /\ UNCHANGED <<dirExists, disk, session, index, file_name, data, url,
                   response, error, exitStatus, origin, gets, requested, fetched,
                   served, writes, pacings, disk0,
                   counting, totalGets>>

\* lines 46-50
Backoff ==
    /\ pc = "check"
    /\ ~IsSuccess(response)
    /\ IsTransient(response)
    /\ backoffs' = Append(backoffs, SleepSeconds(attempt))
    /\ pc' = "for"
    /\ UNCHANGED <<dirExists, disk, session, index, file_name, data, url, attempt,
                   response, error, exitStatus, origin, gets, requested, fetched,
                   served, writes, pacings, disk0,
                   counting, totalGets>>

\* lines 52-55
RaiseHttp ==
    /\ pc = "check"
    /\ ~IsSuccess(response)
    /\ ~IsTransient(response)
    /\ Raise(HttpError(file_name, response))

\* lines 67-69
WriteFile ==
    /\ pc = "write"
    /\ dirExists
    /\ disk' = WriteBytes(disk, OutPath(index), data)
    /\ writes' = Append(writes, OutPath(index))
    /\ pc' = "pace"
    /\ UNCHANGED <<dirExists, session, index, file_name, data, url, attempt,
                   response, error, exitStatus, origin, gets, backoffs, requested,
                   fetched, served, pacings, disk0,
                   counting, totalGets>>

\* variant: no pacing sleep after the last item
PaceExceptLast ==
    /\ pc = "pace"
    /\ pacings' = IF index < Len(FILES) THEN Append(pacings, PACING) ELSE pacings
    /\ pc' = "enumerate"
    /\ UNCHANGED <<dirExists, disk, session, index, file_name, data, url, attempt,
                   response, error, exitStatus, origin, gets, backoffs, requested,
                   fetched, served, writes, disk0,
                   counting, totalGets>>

\* line 71
Pace ==
    /\ pc = "pace"
    /\ pacings' = Append(pacings, PACING)
    /\ pc' = "enumerate"
    /\ UNCHANGED <<dirExists, disk, session, index, file_name, data, url, attempt,
                   response, error, exitStatus, origin, gets, backoffs, requested,
                   fetched, served, writes, disk0,
                   counting, totalGets>>

Next ==
    \/ Setup
    \/ CallFetch
    \/ Finish
    \/ ForAttempt
    \/ Exhausted
    \/ Get
    \/ GetRaises
    \/ ReturnContent
    \/ Backoff
    \/ RaiseHttp
    \/ WriteFile
    \/ Pace

Spec == Init /\ [][Next]_vars

\* the thread is never descheduled for good: session.get answers or raises
\* within its timeout and every sleep ends
FairSpec == Spec /\ WF_vars(Next)

\* the same program, observed with the GETs of the run totalled
CountSpec == CountInit /\ [][Next]_vars

----------------------------------------------------------------------------
(* The properties, stated on the responses and effects themselves *)

\* r carries a content-type header whose first six characters are image/
ImageTyped(r) ==
    /\ "content-type" \in DOMAIN r.headers
    /\ LET ct == r.headers["content-type"]
       IN  Len(ct) >= 6 /\ <<ct[1], ct[2], ct[3], ct[4], ct[5], ct[6]>> = <<"i", "m", "a", "g", "e", "/">>

\* a response is held and has just been received
Holding == pc = "check"

\* this step issues a GET
GetStep == gets' = gets + 1

\* this step is a backoff sleep of fetch_logo
SleepStep == Len(backoffs') = Len(backoffs) + 1

\* C1: a response with status 200 and a content type beginning with image/
\* makes fetch_logo return that response's body unchanged in its very next
\* step, and no GET and no backoff sleep for that identifier follows.
C1_SuccessReturnsBodyAtOnce ==
    [][ /\ (Holding /\ response.status_code = 200 /\ ImageTyped(response))
            => /\ pc' = "write"
               /\ data' = response.content
               /\ file_name \in fetched'
               /\ ~GetStep /\ ~SleepStep
        /\ GetStep => url.name \notin fetched
        /\ SleepStep => file_name \notin fetched ]_vars

\* C1 witness: a fetch that returned the served body after two retries
C1_Witness ==
    /\ pc = "write" /\ gets = 3 /\ Len(backoffs) = 2
    /\ data = served[file_name] /\ data # NoBytes

ExpectedDelays == <<1, 2, 4, 8, 16, 20, 20>>

\* C2: a 429 or 503 on attempt k (the k+1-th GET) is followed by a sleep of
\* min(2^k, 20) seconds, 1 2 4 8 16 20 20 for k = 0..6, and fetch_logo sleeps
\* for no other duration and on no other occasion.
C2_BackoffDelays ==
    [][ /\ (Holding /\ response.status_code \in {429, 503})
            => /\ gets = attempt + 1
               /\ backoffs' = Append(backoffs, ExpectedDelays[attempt + 1])
        /\ SleepStep
            => /\ Holding /\ response.status_code \in {429, 503}
               /\ backoffs'[Len(backoffs')] = ExpectedDelays[gets] ]_vars

\* C2 witness: all seven delays have been slept
C2_Witness == backoffs = <<1, 2, 4, 8, 16, 20, 20>>

\* C3: one call of fetch_logo issues at most 7 GETs; after 7 transient
\* responses the next step is the exhaustion failure, reached with exactly 7
\* GETs issued, and the exhaustion failure arises in no other way.
C3_AtMostSevenGets ==
    /\ [](gets <= 7 /\ Len(backoffs) <= 7)
    /\ [](error.kind = "exceeded retry attempts" => gets = 7 /\ Len(backoffs) = 7 /\ pc = "fatal")
    /\ [][ (Len(backoffs) = 7 /\ pc # "fatal")
              => (pc' = "fatal" /\ error'.kind = "exceeded retry attempts" /\ gets' = 7) ]_vars

\* C3 witness: the exhaustion failure after seven GETs
C3_Witness ==
    /\ pc = "fatal" /\ error.kind = "exceeded retry attempts"
    /\ gets = 7 /\ index = 2

\* C4: a response whose status is none of 200, 429, 503 makes fetch_logo fail
\* in its next step with an error carrying the status code and the content
\* type (the words "unknown type" when the header is missing); nothing, so no
\* GET and no sleep, follows the failure.
C4_OtherStatusFailsAtOnce ==
    [][ /\ (Holding /\ response.status_code \notin {200, 429, 503})
            => /\ pc' = "fatal"
               /\ error'.kind = "http"
               /\ error'.file_name = file_name
               /\ error'.status_code = response.status_code
               /\ error'.content_type =
                     (IF "content-type" \in DOMAIN response.headers
                      THEN response.headers["content-type"] ELSE UnknownType)
               /\ ~GetStep /\ ~SleepStep
        /\ (error.kind = "http") => FALSE ]_vars

\* C4 witness: a 404 on the third attempt ended the fetch
C4_Witness ==
    /\ pc = "fatal" /\ error.kind = "http" /\ error.status_code = 404
    /\ gets = 3 /\ Len(backoffs) = 2

\* C5: a response with status 200 whose content type does not begin with
\* image/ (or is missing) is a failure: fetch_logo returns nothing, does not
\* retry and fails in its next step.
C5_WrongTypeIsFailure ==
    [][ (Holding /\ response.status_code = 200 /\ ~ImageTyped(response))
            => /\ pc' = "fatal"
               /\ error'.kind = "http" /\ error'.status_code = 200
               /\ data' = data
               /\ fetched' = fetched
               /\ ~GetStep /\ ~SleepStep ]_vars

\* C5 witness: a 200 without a content-type header ended the fetch
C5_Witness ==
    /\ pc = "fatal" /\ error.kind = "http" /\ error.status_code = 200
    /\ error.content_type = UnknownType
    /\ file_name \notin fetched /\ gets = 2

ExpectedPaths ==
    << "public/trusted-logos/logo-01.png", "public/trusted-logos/logo-02.png",
       "public/trusted-logos/logo-03.png", "public/trusted-logos/logo-04.png",
       "public/trusted-logos/logo-05.png", "public/trusted-logos/logo-06.png",
       "public/trusted-logos/logo-07.png", "public/trusted-logos/logo-08.png",
       "public/trusted-logos/logo-09.png", "public/trusted-logos/logo-10.png",
       "public/trusted-logos/logo-11.png", "public/trusted-logos/logo-12.png",
       "public/trusted-logos/logo-13.png", "public/trusted-logos/logo-14.png",
       "public/trusted-logos/logo-15.png", "public/trusted-logos/logo-16.png" >>

AllFiles == {FILES[i] : i \in 1 .. 16}

\* the process has ended
Terminated == pc \in {"exit0", "fatal"}

\* C6: once all 16 identifiers have been fetched the run ends normally, and
\* at the normal end exactly the 16 files logo-01 .. logo-16 have been
\* written, in list order, the i-th holding the bytes served for the i-th
\* identifier whatever the path held before, every other path being untouched.
C6_SixteenFilesInOrder ==
    /\ [](pc = "exit0" =>
            /\ Len(FILES) = 16
            /\ fetched = AllFiles
            /\ writes = ExpectedPaths
            /\ \A i \in 1 .. 16 :
                  /\ served[FILES[i]] \notin {NoBytes, Absent}
                  /\ disk[ExpectedPaths[i]] = served[FILES[i]]
            /\ \A p \in DOMAIN disk :
                  (\A i \in 1 .. 16 : p # ExpectedPaths[i]) => (p \in DOMAIN disk0 /\ disk[p] = disk0[p]))
    /\ (fetched = AllFiles) ~> (pc = "exit0")

\* C6 witness: a normal end of a run that found stale files at every path
C6_Witness ==
    /\ pc = "exit0" /\ Len(writes) = 16
    /\ disk0 = FullDisk
    /\ disk[ExpectedPaths[16]] = <<16, origin>>

\* C7: a failed fetch of the item at position p halts the run with exactly
\* the files of positions 1..p-1 written and GETs issued for the identifiers
\* of positions 1..p only; at every moment an identifier has been requested
\* only if every earlier item was fetched and its file written.
C7_FailFast ==
    /\ [](pc = "fatal" =>
            /\ index \in 1 .. 16
            /\ writes = SubSeq(ExpectedPaths, 1, index - 1)
            /\ requested = {FILES[i] : i \in 1 .. index}
            /\ fetched = {FILES[i] : i \in 1 .. index - 1}
            /\ exitStatus \notin {0, Running})
    /\ [](\A i \in 1 .. 16 : FILES[i] \in requested =>
            \A j \in 1 .. i - 1 :
                /\ FILES[j] \in fetched
                /\ \E k \in 1 .. Len(writes) : writes[k] = ExpectedPaths[j])
    /\ [][ /\ (pc = "fatal") => FALSE
           /\ (pc \in {"for", "check"} /\ pc' \notin {"for", "get", "check", "write"}) => pc' = "fatal" ]_vars

\* C7 witness: the fifth item's fetch ran out of attempts, files 01-04 exist
C7_Witness ==
    /\ pc = "fatal" /\ index = 5 /\ error.kind = "exceeded retry attempts"
    /\ Len(writes) = 4
    /\ FILES[6] \notin requested

\* C8: every run ends; it ends with status 0 exactly when it ends normally,
\* which is exactly when all 16 items were fetched and written, and with a
\* non-zero status exactly when an error of a fetch went uncaught.
C8_TerminatesWithStatus ==
    /\ <>Terminated
    /\ [](Terminated <=> exitStatus # Running)
    /\ [](exitStatus = 0 <=> (Terminated /\ error = NoRecord))
    /\ [](exitStatus = 0 <=> (Terminated /\ fetched = AllFiles /\ Len(writes) = 16))
    /\ [](exitStatus \notin {0, Running} <=> (error # NoRecord /\ file_name \notin fetched))

\* C8 witness: a run that ended with status 1 on an HTTP error at the last item
C8_Witness ==
    /\ pc = "fatal" /\ exitStatus = 1 /\ index = 16 /\ error.kind = "http"

\* C9: the step that fails leaves every file as it was, so at the failure the
\* files of all earlier items hold what was written to them.
C9_FailureKeepsFiles ==
    /\ [][ (pc' = "fatal") => (disk' = disk /\ dirExists' = dirExists) ]_vars
    /\ [](pc = "fatal" => \A i \in 1 .. index - 1 : disk[ExpectedPaths[i]] = served[FILES[i]])

\* C9 witness: a failure at the fourth item with three files on disk
C9_Witness ==
    /\ pc = "fatal" /\ index = 4
    /\ \A i \in 1 .. 3 : disk[ExpectedPaths[i]] = <<i, origin>>
    /\ disk0 = EmptyDisk

\* C10: no step of fetch_logo (loop header, GET, classification, backoff,
\* return, raise) changes the set or the contents of the files.
C10_FetcherWritesNothing ==
    [][ (pc \in {"for", "get", "check"}) => (disk' = disk /\ writes' = writes /\ dirExists' = dirExists) ]_vars

\* C10 witness: a fetch returned after retries and the disk holds exactly the
\* earlier files
C10_Witness ==
    /\ pc = "write" /\ index = 3 /\ gets = 4
    /\ disk[ExpectedPaths[2]] = <<2, origin>>
    /\ disk[ExpectedPaths[3]] = disk0[ExpectedPaths[3]]
\* this step is a pacing sleep of main
PaceStep == Len(pacings') = Len(pacings) + 1

\* C11: main sleeps 1.25 s once after every written item, the 16th included,
\* and never after a failed one: the sleep for item i comes after file i was
\* written and before the first GET for item i+1.
C11_PacingAfterEachItem ==
    /\ [](/\ \A k \in 1 .. Len(pacings) : pacings[k] = 125
          /\ Len(pacings) \in {Len(writes), Len(writes) - 1}
          /\ (pc = "exit0" => Len(pacings) = 16 /\ Len(writes) = 16)
          /\ (pc = "fatal" => Len(pacings) = index - 1 /\ Len(writes) = index - 1))
    /\ [][ /\ PaceStep => (Len(writes) = index /\ Len(pacings) = index - 1 /\ file_name \in fetched)
           /\ (Len(writes) = Len(pacings) + 1) => (PaceStep /\ ~GetStep)
           /\ GetStep => (Len(pacings) = index - 1 /\ Len(writes) = index - 1) ]_vars

\* C11 witness: the sixteenth pacing sleep, after the last file
C11_Witness ==
    /\ Len(pacings) = 16 /\ pacings[16] = 125
    /\ Len(writes) = 16 /\ pc = "enumerate"
\* fetch_logo has just slept and stands at its loop header again
AfterSleep == pc = "for" /\ Len(backoffs) > 0

\* C12 as stated: every backoff sleep is followed by another GET for the same
\* identifier.
C12_EverySleepThenGet ==
    [][ /\ AfterSleep => (pc' = "get" /\ file_name' = file_name /\ url' = url)
        /\ (pc = "get" /\ Len(backoffs) > 0) => (GetStep /\ url.name = file_name) ]_vars

\* C12 amended: the sleeps after attempts 0..5 are each followed by another
\* GET for the same identifier; the sleep after attempt 6, the seventh, is
\* followed by the exhaustion failure and no GET.
C12_SleepThenGetWithinBudget ==
    [][ /\ (AfterSleep /\ Len(backoffs) < 7)
            => (pc' = "get" /\ file_name' = file_name /\ url' = url /\ attempt' = Len(backoffs))
        /\ (pc = "get" /\ Len(backoffs) > 0)
            => (GetStep /\ url.name = file_name /\ gets' = Len(backoffs) + 1)
        /\ (AfterSleep /\ Len(backoffs) = 7)
            => (pc' = "fatal" /\ error'.kind = "exceeded retry attempts" /\ ~GetStep) ]_vars

\* C12 witness: the GET that follows the third sleep has been answered
C12_Witness ==
    /\ pc = "check" /\ gets = 4 /\ backoffs = <<1, 2, 4>>
    /\ file_name = FILES[2]
\* the identifiers requested but not yet fetched
InFlight == requested \ fetched

\* C13: the items are handled one at a time in list order: at most one
\* identifier is requested and not yet fetched, the identifiers requested are
\* those of positions 1..k for some k, each GET is for the first identifier
\* not yet fetched, and it is issued only when the files of all earlier
\* positions have been written.
C13_SequentialInOrder ==
    /\ [](/\ Cardinality(InFlight) <= 1
          /\ \E k \in 0 .. 16 : requested = {FILES[i] : i \in 1 .. k}
          /\ \E k \in 0 .. 16 : fetched = {FILES[i] : i \in 1 .. k}
          /\ fetched \subseteq requested)
    /\ [][ GetStep =>
              /\ Cardinality(fetched) < 16
              /\ url.name = FILES[Cardinality(fetched) + 1]
              /\ requested' = {FILES[i] : i \in 1 .. Cardinality(fetched) + 1}
              /\ writes = SubSeq(ExpectedPaths, 1, Cardinality(fetched)) ]_vars

\* C13 witness: the first GET for item 8, the seven earlier files written
C13_Witness ==
    /\ pc = "check" /\ gets = 1
    /\ InFlight = {FILES[8]}
    /\ Len(writes) = 7
\* the paths this run has written
Written == {writes[k] : k \in 1 .. Len(writes)}

\* C14: at every moment the files written by the run are those of positions
\* 1..k for some k in 0..16, each written once; a written file keeps the
\* content it was given and an unwritten path keeps what the run found.
C14_WrittenPrefixOnce ==
    /\ [](/\ Len(writes) <= 16
          /\ writes = SubSeq(ExpectedPaths, 1, Len(writes))
          /\ Cardinality(Written) = Len(writes)
          /\ \A k \in 1 .. Len(writes) : disk[ExpectedPaths[k]] = served[FILES[k]]
          /\ \A p \in DOMAIN disk : p \notin Written => (p \in DOMAIN disk0 /\ disk[p] = disk0[p]))
    /\ [][ /\ \A p \in Written : disk'[p] = disk[p]
           /\ \A k \in 1 .. Len(writes) : k <= Len(writes') /\ writes'[k] = writes[k] ]_vars

\* C14 witness: nine files written on top of stale ones, the tenth in flight
C14_Witness ==
    /\ Len(writes) = 9 /\ pc = "check" /\ gets = 2
    /\ disk0 = FullDisk
    /\ disk[ExpectedPaths[9]] = <<9, origin>>
    /\ disk[ExpectedPaths[10]] = disk0[ExpectedPaths[10]]
\* this step enters fetch_logo for the next item
CallStep == index' = index + 1

\* C15: the budget is per call: every call of fetch_logo starts with no GET
\* issued and no sleep slept, its first GET is attempt 0 and its first sleep
\* lasts 1 s, whatever earlier calls went through; so item i is reached with
\* at most 7 * (i - 1) GETs issued and a run issues at most 16 * 7 = 112.
C15_BudgetPerItem ==
    /\ [](/\ gets <= 7
          /\ (Len(backoffs) >= 1 => backoffs[1] = 1)
          /\ (index >= 1 => totalGets <= 7 * (index - 1) + gets)
          /\ totalGets <= 112)
    /\ [][ /\ CallStep => (gets' = 0 /\ backoffs' = <<>> /\ totalGets' = totalGets /\ pc' = "for")
           /\ (pc = "for" /\ gets = 0) => (pc' = "get" /\ attempt' = 0)
           /\ GetStep => (gets' = attempt + 1 /\ totalGets' = totalGets + 1) ]_vars

\* C15 witness: the sixteenth call uses its seventh GET after each of the
\* fifteen calls before it used seven
C15_Witness ==
    /\ totalGets = 112 /\ index = 16 /\ gets = 7
    /\ backoffs = <<1, 2, 4, 8, 16, 20>>
\* the three classes, in the order of the claim
SuccessClass(r) == r.status_code = 200 /\ ImageTyped(r)
TransientClass(r) == ~SuccessClass(r) /\ r.status_code \in {429, 503}
NonRetryableClass(r) == ~SuccessClass(r) /\ ~TransientClass(r)

\* C16: every response held is handled as exactly one of success (status 200
\* and image/ content type: return), transient (otherwise 429 or 503, with
\* any content type: sleep and loop) and non-retryable (all the rest: raise
\* with the status), and the step taken is the one of its class.
C16_ClassificationTotal ==
    [][ Holding =>
          /\ pc' \in {"write", "for", "fatal"}
          /\ SuccessClass(response) <=> (pc' = "write" /\ data' = response.content)
          /\ TransientClass(response) <=> (pc' = "for" /\ SleepStep)
          /\ NonRetryableClass(response)
                <=> (pc' = "fatal" /\ error'.kind = "http" /\ error'.status_code = response.status_code)
          /\ (response.status_code \in {429, 503} /\ ImageTyped(response)) => SleepStep ]_vars

\* C16 witness: a 429 that carried an image content type was slept on
C16_Witness ==
    /\ pc = "for" /\ Len(backoffs) = 1
    /\ response.status_code = 429 /\ ImageTyped(response)
\* this step is a GET that brings no response
NoAnswerStep == pc = "get" /\ pc' # "check"

\* C17: a GET that yields no response (timeout, connection error) is not
\* retried and not slept on: the exception of session.get ends the run in
\* that very step, with no file written for the item or any later one.
C17_NoResponseIsFatal ==
    /\ [][ /\ NoAnswerStep
              => /\ GetStep
                 /\ pc' = "fatal"
                 /\ error' = [kind |-> "requests", file_name |-> FILES[index]]
                 /\ exitStatus' = 1
                 /\ ~SleepStep
                 /\ response' = response
                 /\ disk' = disk /\ writes' = writes
           /\ (error.kind = "requests") => FALSE ]_vars
    /\ [](error.kind = "requests" =>
            /\ pc = "fatal"
            /\ writes = SubSeq(ExpectedPaths, 1, index - 1)
            /\ \A i \in index .. 16 : disk[ExpectedPaths[i]] = disk0[ExpectedPaths[i]]
            /\ FILES[index] \notin fetched
            /\ Len(backoffs) = gets - 1)

\* C17 witness: the second GET for the third item timed out
C17_Witness ==
    /\ pc = "fatal" /\ error.kind = "requests"
    /\ index = 3 /\ gets = 2 /\ backoffs = <<1>>
    /\ Len(writes) = 2
====
